---- MODULE Spec2Model ----
(***************************************************************************)
(* Order lifecycle of the order service: createOrder, payOrder and         *)
(* cancelOrder of OrderService, the order and product repositories they    *)
(* call, and the mongoose session that withTransaction wraps around the    *)
(* writes.  One call slot runs one service call; a call advances by one    *)
(* action per database round trip (each await in the source), so calls in  *)
(* different slots interleave exactly where the source can be preempted.   *)
(***************************************************************************)
EXTENDS Integers, Sequences, FiniteSets, TLC

\* ---------------------------------------------------------------- bounds
MaxOrders == 2
MaxCatalogOrders == 1
MaxConcOrders == 2
MaxTxnOrders == 1
MaxStock == 2
MaxQty == 2
MaxPrice == 2

\* ------------------------------------------------------------- universes
Calls == {"c1", "c2"}
ProductIds == {"p1", "p2"}
UnknownId == "pz"
RequestIds == ProductIds \cup {UnknownId}
Actors == { [id |-> "u1", role |-> "customer"],
            [id |-> "admin", role |-> "admin"] }
Quantities == 0..MaxQty
Prices == 1..MaxPrice
Lines == [productId : RequestIds, quantity : Quantities]
ItemLists == UNION { [1..n -> Lines] : n \in 0..2 }
OrderIds == 1..3
Statuses == {"created", "paid", "cancelled"}

\* OrderFilters: page and limit as the controller builds them, status optional
DefaultLimit == 20
NoFilters == [page |-> 1, limit |-> DefaultLimit, status |-> "none"]
Filters == [page : {1, 2}, limit : {1, DefaultLimit}, status : Statuses \cup {"none"}]

VARIABLES catalog, price, stock, orders, pc, call, session, result

vars == <<catalog, price, stock, orders, pc, call, session, result>>

\* ------------------------------------------------------------ call state
NoItems == <<>>

NoSession == [state |-> "none", ended |-> FALSE, inserts |-> <<>>,
              statusSets |-> <<>>, incs |-> [p \in ProductIds |-> 0]]

NoResult == [op |-> "none", ok |-> FALSE, code |-> 0, error |-> "none", message |-> "none",
             orderId |-> 0, status |-> "none", missing |-> <<>>,
             warned |-> FALSE, product |-> "none", line |-> 0,
             available |-> 0, requested |-> 0, orders |-> <<>>]

NoCall == [op |-> "none", userId |-> "none", isAdmin |-> FALSE,
           items |-> NoItems, orderItems |-> NoItems, orderId |-> 0,
           readStatus |-> "none", warned |-> FALSE,
           error |-> NoResult, txns |-> 0, filters |-> NoFilters]

Ok(message, orderId, status) ==
  [NoResult EXCEPT !.ok = TRUE, !.code = 200, !.message = message,
                   !.orderId = orderId, !.status = status]

ApiErrorDefaultStatus(message, statusCode) ==
  [NoResult EXCEPT !.code = 500, !.error = "ApiError", !.message = message]

ApiError(message, statusCode) ==
  [NoResult EXCEPT !.code = statusCode, !.error = "ApiError", !.message = message]

ValidationError(message) ==
  [NoResult EXCEPT !.code = 400, !.error = "ValidationError", !.message = message]

ConflictError(message) ==
  [NoResult EXCEPT !.code = 409, !.error = "ConflictError", !.message = message]

Thrown(error) ==
  [NoResult EXCEPT !.code = 500, !.error = error, !.message = error]

\* --------------------------------------------------------------- helpers
RECURSIVE SumSeq(_)
SumSeq(s) == IF Len(s) = 0 THEN 0 ELSE Head(s) + SumSeq(Tail(s))

isAdminOf(actor) == actor.role = "admin"

\* ---------------------------------------------------- product repository
findByIds(ids) == { p \in catalog : \E i \in 1..Len(ids) : ids[i] = p }

updateStockDecreaseOnly(productId, quantityChange, sess) ==
  IF productId \in catalog
    THEN [sess EXCEPT !.incs[productId] =
            @ - (IF quantityChange < 0 THEN -quantityChange ELSE quantityChange)]
    ELSE sess

updateStock(productId, quantityChange, sess) ==
  IF productId \in catalog
    THEN [sess EXCEPT !.incs[productId] = @ + quantityChange]
    ELSE sess

\* ------------------------------------------------------ order repository
orderTotalFirstLine(items) ==
  IF Len(items) = 0 THEN 0 ELSE items[1].quantity * items[1].unitPrice

orderTotal(items) ==
  SumSeq([i \in 1..Len(items) |-> items[i].quantity * items[i].unitPrice])

newOrderPaid(userId, items) ==
  [userId |-> userId, items |-> items, total |-> orderTotal(items),
   status |-> "paid"]

newOrder(userId, items) ==
  [userId |-> userId, items |-> items, total |-> orderTotal(items),
   status |-> "created"]

orderSchemaValid(order) ==
  /\ Len(order.items) > 0
  /\ \A i \in 1..Len(order.items) :
        order.items[i].quantity >= 1 /\ order.items[i].unitPrice >= 0
  /\ order.total >= 0
  /\ order.status \in {"created", "paid", "cancelled"}

findById(id) == IF id \in 1..Len(orders) THEN id ELSE 0

\* the orders a query matches: of one owner or of all ("none"), with one
\* status or with any ("none")
matching(userId, status) ==
  { o \in 1..Len(orders) :
      /\ userId = "none" \/ orders[o].userId = userId
      /\ status = "none" \/ orders[o].status = status }

\* sort({ createdAt: -1 }): the newest order first
RECURSIVE newestFirst(_)
newestFirst(ids) ==
  IF ids = {} THEN <<>>
  ELSE LET newest == CHOOSE o \in ids : \A q \in ids : q <= o
       IN <<newest>> \o newestFirst(ids \ {newest})

\* skip((page - 1) * limit).limit(limit)
pageOf(found, page, limit) ==
  LET skip == (page - 1) * limit
      last == IF skip + limit < Len(found) THEN skip + limit ELSE Len(found)
  IN SubSeq(found, skip + 1, last)

findByUserIdAnyOwner(userId, options) ==
  pageOf(newestFirst(matching("none", options.status)), options.page, options.limit)

findByUserId(userId, options) ==
  pageOf(newestFirst(matching(userId, options.status)), options.page, options.limit)

findAll(options) ==
  pageOf(newestFirst(matching("none", options.status)), options.page, options.limit)

\* populate('items.productId'): the reference to a product that is no longer
\* in the catalog is populated as null
NullRef == "null"

populate(items) ==
  [i \in 1..Len(items) |->
     IF items[i].productId \in catalog
       THEN items[i] ELSE [items[i] EXCEPT !.productId = NullRef]]

\* the lines on which item.productId.toString() throws a TypeError
nullLines(items) == { i \in 1..Len(items) : items[i].productId = NullRef }

setStatusOverwrites(os, id, status) ==
  IF id \in 1..Len(os)
    THEN [os EXCEPT ![id] = [userId |-> os[id].userId, items |-> <<>>,
                             total |-> 0, status |-> status]]
    ELSE os

setStatusRepricesItems(os, id, status) ==
  IF id \in 1..Len(os)
    THEN [os EXCEPT ![id].status = status,
                    ![id].items = [i \in 1..Len(os[id].items) |->
                                     [productId |-> os[id].items[i].productId,
                                      quantity |-> os[id].items[i].quantity,
                                      unitPrice |-> price[os[id].items[i].productId]]]]
    ELSE os

setStatus(os, id, status) ==
  IF id \in 1..Len(os) THEN [os EXCEPT ![id].status = status] ELSE os

RECURSIVE applyStatusSets(_, _)
applyStatusSets(os, sets) ==
  IF Len(sets) = 0 THEN os
  ELSE applyStatusSets(setStatus(os, Head(sets).id, Head(sets).status), Tail(sets))

committedOrders(sess) == applyStatusSets(orders \o sess.inserts, sess.statusSets)

committedStock(sess) == [p \in ProductIds |-> stock[p] + sess.incs[p]]

\* documents with an uncommitted write of a transaction of another call: a
\* second transaction that writes one gets a write conflict, and a write
\* outside a transaction waits until that transaction has ended
lockedProducts(c) ==
  { p \in ProductIds :
      \E d \in Calls \ {c} : session[d].state = "active" /\ session[d].incs[p] # 0 }

lockedOrders(c) ==
  { o \in 1..Len(orders) :
      \E d \in Calls \ {c} :
         /\ session[d].state = "active"
         /\ \E k \in 1..Len(session[d].statusSets) : session[d].statusSets[k].id = o }

\* the writes of a callback that can throw: any of them (a storage failure),
\* but no write after the first one that meets a write conflict
conflictLines(c, items) ==
  { i \in 1..Len(items) : items[i].productId \in lockedProducts(c) }

mayFailAt(failAt, conflicts) ==
  conflicts = {} \/ (failAt # 0 /\ \A w \in conflicts : failAt <= w)

\* ------------------------------------------------- createOrder validation
productIdsOf(items) == [i \in 1..Len(items) |-> items[i].productId]

validateItemsNegativeOnly(items) ==
  IF Len(items) = 0 THEN "Order must contain at least one item"
  ELSE IF \E i \in 1..Len(items) : items[i].quantity < 0
    THEN "Quantity must be greater than 0"
    ELSE "ok"

validateItems(items) ==
  IF Len(items) = 0 THEN "Order must contain at least one item"
  ELSE IF \E i \in 1..Len(items) : items[i].quantity <= 0
    THEN "Quantity must be greater than 0"
    ELSE "ok"

productsMissing(items) ==
  Cardinality(findByIds(productIdsOf(items))) # Len(items)

missingIdsAll(items) == productIdsOf(items)

missingIds(items) ==
  SelectSeq(productIdsOf(items), LAMBDA id : id \notin findByIds(productIdsOf(items)))

insufficientLinesOutOfStock(items) ==
  { i \in 1..Len(items) : stock[items[i].productId] <= 0 }

insufficientLinesFirstOnly(items) ==
  { i \in 1..Len(items) : i = 1 /\ stock[items[i].productId] < items[i].quantity }

insufficientLines(items) ==
  { i \in 1..Len(items) : stock[items[i].productId] < items[i].quantity }

firstInsufficient(items) ==
  CHOOSE i \in insufficientLines(items) : \A j \in insufficientLines(items) : i <= j

orderItemsOfUnitQuantity(items) ==
  [i \in 1..Len(items) |->
     [productId |-> items[i].productId, quantity |-> 1,
      unitPrice |-> price[items[i].productId]]]

orderItemsOf(items) ==
  [i \in 1..Len(items) |->
     [productId |-> items[i].productId, quantity |-> items[i].quantity,
      unitPrice |-> price[items[i].productId]]]

createsInFlight ==
  Cardinality({ c \in Calls : call[c].op = "createOrder" /\ pc[c] # "done" })


\* ------------------------------------------------------------- call steps
finish(c, r) ==
  /\ pc' = [pc EXCEPT ![c] = "done"]
  /\ result' = [result EXCEPT ![c] = r]

\* the request a call was made with: OrderService method and its arguments
request(op, actor, items, orderId) ==
  [NoCall EXCEPT !.op = op, !.userId = actor.id, !.isAdmin = isAdminOf(actor),
                 !.items = items, !.orderId = orderId]

\* the call ends before it has written anything: a throw or an early return
throw(c, req, r) ==
  /\ finish(c, [r EXCEPT !.op = req.op])
  /\ call' = [call EXCEPT ![c] = req]
  /\ UNCHANGED <<catalog, price, stock, orders, session>>

\* OrderService.createOrder up to the call of withTransaction
createOrder(c, actor, items, maxOrders) ==
  /\ pc[c] = "idle"
  /\ IF validateItems(items) # "ok"
       THEN throw(c, request("createOrder", actor, items, 0), ValidationError(validateItems(items)))
     ELSE IF productsMissing(items)
       THEN throw(c, request("createOrder", actor, items, 0),
                  [ValidationError("Products not found")
                     EXCEPT !.missing = missingIds(items)])
     ELSE IF insufficientLines(items) # {}
       THEN LET line == items[firstInsufficient(items)] IN
            throw(c, request("createOrder", actor, items, 0),
                  [ValidationError("Insufficient stock")
                     EXCEPT !.product = line.productId,
                            !.line = firstInsufficient(items),
                            !.available = stock[line.productId],
                            !.requested = line.quantity])
     ELSE /\ Len(orders) + createsInFlight < maxOrders
          /\ pc' = [pc EXCEPT ![c] = "withTransaction"]
          /\ call' = [call EXCEPT ![c] =
                        [request("createOrder", actor, items, 0)
                           EXCEPT !.orderItems = orderItemsOf(items)]]
          /\ UNCHANGED <<catalog, price, stock, orders, session, result>>

\* OrderRepositoryImpl.withTransaction: startSession and startTransaction
startTransaction(c) == [NoSession EXCEPT !.state = "active"]

stockLoopLastOnly(sess, items, sign, k) ==
  IF k = 0 THEN sess
  ELSE updateStock(items[k].productId, sign * items[k].quantity, sess)

\* the stock loop of a callback: updateProductStock for the first k lines
RECURSIVE stockLoop(_, _, _, _)
stockLoop(sess, items, sign, k) ==
  IF k = 0 THEN sess
  ELSE updateStock(items[k].productId, sign * items[k].quantity,
                   stockLoop(sess, items, sign, k - 1))

\* the callback ran to its end (failAt = 0) or its failAt-th write threw
callbackEnds(c, sess, failAt, error) ==
  /\ session' = [session EXCEPT ![c] = sess]
  /\ pc' = [pc EXCEPT ![c] = IF failAt = 0 THEN "commit" ELSE "abort"]
  /\ call' = [call EXCEPT ![c].txns = @ + 1,
                          ![c].error = IF failAt = 0 THEN NoResult ELSE error]
  /\ UNCHANGED <<catalog, price, stock, orders, result>>

\* withTransaction around the callback of createOrder: the order insert is
\* write 1, the stock decrease of line k is write k + 1
createOrderCallback(c, failAt) ==
  /\ pc[c] = "withTransaction"
  /\ call[c].op = "createOrder"
  /\ failAt \in 0..(Len(call[c].items) + 1)
  /\ mayFailAt(failAt, { i + 1 : i \in conflictLines(c, call[c].items) })
  /\ LET order == newOrder(call[c].userId, call[c].orderItems)
         inserted == [startTransaction(c) EXCEPT !.inserts = Append(@, order)]
         written == IF failAt = 0 THEN Len(call[c].items) ELSE failAt - 2
     IN IF failAt = 1
          THEN callbackEnds(c, startTransaction(c), 1, Thrown("StorageError"))
        ELSE IF ~orderSchemaValid(order)
          THEN callbackEnds(c, startTransaction(c), 1, Thrown("ValidatorError"))
        ELSE callbackEnds(c, stockLoop(inserted, call[c].items, -1, written),
                          failAt, Thrown("StorageError"))

accessDeniedAfterStatus(order, actor) ==
  ~isAdminOf(actor) /\ order.userId # actor.id /\ order.status = "created"

accessDeniedOwnerOnly(order, actor) == order.userId # actor.id

\* the access check shared by payOrder and cancelOrder; toString() of the
\* populated owner and of the populated products is taken to yield the id
accessDenied(order, actor) ==
  ~isAdminOf(actor) /\ order.userId # actor.id

updateStatusEveryOrder(id, status) ==
  [o \in 1..Len(orders) |-> [orders[o] EXCEPT !.status = status]]

\* OrderRepositoryImpl.updateStatus without a session: written at once
updateStatus(id, status) == setStatus(orders, id, status)

updateStatusInNoSession(sess, id, status) == sess

\* OrderRepositoryImpl.updateStatus with a session: written at commit
updateStatusIn(sess, id, status) ==
  [sess EXCEPT !.statusSets = Append(@, [id |-> id, status |-> status])]

payOutcomeCancelledAsPaid(status) ==
  IF status = "paid" \/ status = "cancelled" THEN "already"
  ELSE IF status # "created" THEN "reject"
  ELSE "write"

payOutcomeNoConflict(status) ==
  IF status = "paid" THEN "already" ELSE "write"

payOutcomeRewrites(status) ==
  IF status = "cancelled" THEN "conflict"
  ELSE IF status # "created" /\ status # "paid" THEN "reject"
  ELSE "write"

\* the status checks of payOrder, in the order of the code
payOutcome(status) ==
  IF status = "paid" THEN "already"
  ELSE IF status = "cancelled" THEN "conflict"
  ELSE IF status # "created" THEN "reject"
  ELSE "write"

\* OrderService.payOrder up to the call of updateStatus
payOrder(c, actor, orderId) ==
  /\ pc[c] = "idle"
  /\ IF findById(orderId) = 0
       THEN throw(c, request("payOrder", actor, NoItems, orderId), ApiError("Order not found", 404))
     ELSE IF accessDenied(orders[orderId], actor)
       THEN throw(c, request("payOrder", actor, NoItems, orderId), ApiError("Access denied", 403))
     ELSE IF payOutcome(orders[orderId].status) = "already"
       THEN throw(c, request("payOrder", actor, NoItems, orderId), Ok("Order is already paid", orderId,
                                    orders[orderId].status))
     ELSE IF payOutcome(orders[orderId].status) = "conflict"
       THEN throw(c, request("payOrder", actor, NoItems, orderId), ConflictError("Cannot pay for a cancelled order"))
     ELSE IF payOutcome(orders[orderId].status) = "reject"
       THEN throw(c, request("payOrder", actor, NoItems, orderId), ApiError("Cannot pay order with status", 400))
     ELSE /\ pc' = [pc EXCEPT ![c] = "updateStatus"]
          /\ call' = [call EXCEPT ![c] =
                        [request("payOrder", actor, NoItems, orderId)
                           EXCEPT !.readStatus = orders[orderId].status]]
          /\ UNCHANGED <<catalog, price, stock, orders, session, result>>

\* OrderService.payOrder: orderRepository.updateStatus(orderId, 'paid') and return
payOrderWrite(c, fails) ==
  /\ pc[c] = "updateStatus"
  /\ call[c].op = "payOrder"
  /\ call[c].orderId \notin lockedOrders(c)
  /\ IF fails
       THEN /\ finish(c, [Thrown("StorageError") EXCEPT !.op = "payOrder"])
            /\ UNCHANGED orders
       ELSE /\ orders' = updateStatus(call[c].orderId, "paid")
            /\ finish(c, [Ok("Payment successful", call[c].orderId,
                              orders'[call[c].orderId].status)
                            EXCEPT !.op = "payOrder"])
  /\ UNCHANGED <<catalog, price, stock, session, call>>

cancelOutcomeRecancels(status) ==
  IF status # "created" /\ status # "paid" /\ status # "cancelled" THEN "reject"
  ELSE "write"

getOrderByIdUnchecked(c, actor, orderId) ==
  /\ pc[c] = "idle"
  /\ IF findById(orderId) = 0
       THEN throw(c, request("getOrderById", actor, NoItems, orderId),
                  [NoResult EXCEPT !.ok = TRUE, !.code = 404, !.message = "null"])
     ELSE throw(c, request("getOrderById", actor, NoItems, orderId),
                Ok("order", orderId, orders[orderId].status))

\* OrderService.getOrderById: null (the controller answers 404), the 403
\* error, or the order
getOrderById(c, actor, orderId) ==
  /\ pc[c] = "idle"
  /\ IF findById(orderId) = 0
       THEN throw(c, request("getOrderById", actor, NoItems, orderId),
                  [NoResult EXCEPT !.ok = TRUE, !.code = 404, !.message = "null"])
     ELSE IF accessDenied(orders[orderId], actor)
       THEN throw(c, request("getOrderById", actor, NoItems, orderId),
                  ApiError("Access denied", 403))
     ELSE throw(c, request("getOrderById", actor, NoItems, orderId),
                Ok("order", orderId, orders[orderId].status))

\* OrderService.getUserOrders: findAll for an admin, findByUserId otherwise
getUserOrders(c, actor, filters) ==
  /\ pc[c] = "idle"
  /\ throw(c, [request("getUserOrders", actor, NoItems, 0) EXCEPT !.filters = filters],
           [Ok("orders", 0, "none")
              EXCEPT !.orders = IF isAdminOf(actor)
                                  THEN findAll(filters)
                                  ELSE findByUserId(actor.id, filters)])

\* the status checks of cancelOrder, in the order of the code
cancelOutcome(status) ==
  IF status = "cancelled" THEN "already"
  ELSE IF status # "created" /\ status # "paid" THEN "reject"
  ELSE "write"

cancelWarnsEveryCancel(status) == status # "cancelled"

\* logger.warn for the cancellation of a paid order
cancelWarns(status) == status = "paid"

\* OrderService.cancelOrder up to the call of withTransaction
cancelOrder(c, actor, orderId) ==
  /\ pc[c] = "idle"
  /\ IF findById(orderId) = 0
       THEN throw(c, request("cancelOrder", actor, NoItems, orderId), ApiError("Order not found", 404))
     ELSE IF accessDenied(orders[orderId], actor)
       THEN throw(c, request("cancelOrder", actor, NoItems, orderId), ApiError("Access denied", 403))
     ELSE IF cancelOutcome(orders[orderId].status) = "already"
       THEN throw(c, request("cancelOrder", actor, NoItems, orderId),
                  Ok("Order is already cancelled", orderId, orders[orderId].status))
     ELSE IF cancelOutcome(orders[orderId].status) = "reject"
       THEN throw(c, request("cancelOrder", actor, NoItems, orderId),
                  [ApiError("Cannot cancel order with status", 400)
                     EXCEPT !.warned = cancelWarns(orders[orderId].status)])
     ELSE /\ pc' = [pc EXCEPT ![c] = "withTransaction"]
          /\ call' = [call EXCEPT ![c] =
                        [request("cancelOrder", actor, NoItems, orderId)
                           EXCEPT !.orderItems = populate(orders[orderId].items),
                                  !.readStatus = orders[orderId].status,
                                  !.warned = cancelWarns(orders[orderId].status)]]
          /\ UNCHANGED <<catalog, price, stock, orders, session, result>>

\* withTransaction around the callback of cancelOrder: the status update is
\* write 1, the stock increase of line k is write k + 1
cancelOrderCallback(c, failAt) ==
  /\ pc[c] = "withTransaction"
  /\ call[c].op = "cancelOrder"
  /\ failAt \in 0..(Len(call[c].orderItems) + 1)
  /\ mayFailAt(failAt, { i + 1 : i \in conflictLines(c, call[c].orderItems)
                                       \cup nullLines(call[c].orderItems) }
                          \cup (IF call[c].orderId \in lockedOrders(c) THEN {1} ELSE {}))
  /\ LET updated == updateStatusIn(startTransaction(c), call[c].orderId, "cancelled")
         written == IF failAt = 0 THEN Len(call[c].orderItems) ELSE failAt - 2
     IN IF failAt = 1
          THEN callbackEnds(c, startTransaction(c), 1, Thrown("StorageError"))
        ELSE callbackEnds(c, stockLoop(updated, call[c].orderItems, 1, written),
                          failAt,
                          IF failAt - 1 \in nullLines(call[c].orderItems)
                            THEN Thrown("TypeError") ELSE Thrown("StorageError"))

\* what the callback returns once the transaction has committed
callbackResult(c) ==
  IF call[c].op = "createOrder"
    THEN [Ok("Order created successfully", Len(orders) + 1, "created")
            EXCEPT !.op = "createOrder"]
    ELSE [Ok("Order cancelled successfully", call[c].orderId, "cancelled")
            EXCEPT !.op = "cancelOrder", !.warned = call[c].warned]

\* OrderRepositoryImpl.withTransaction: commitTransaction, return, finally endSession
commitTransaction(c, fails) ==
  /\ pc[c] = "commit"
  /\ IF fails
       THEN /\ pc' = [pc EXCEPT ![c] = "abort"]
            /\ call' = [call EXCEPT ![c].error = Thrown("CommitError")]
            /\ UNCHANGED <<stock, orders, session, result>>
       ELSE /\ orders' = committedOrders(session[c])
            /\ stock' = committedStock(session[c])
            /\ session' = [session EXCEPT ![c] =
                             [NoSession EXCEPT !.state = "committed", !.ended = TRUE]]
            /\ finish(c, callbackResult(c))
            /\ UNCHANGED call
  /\ UNCHANGED <<catalog, price>>

abortTransactionCommits(c, fails) ==
  /\ pc[c] = "abort"
  /\ orders' = committedOrders(session[c])
  /\ stock' = committedStock(session[c])
  /\ session' = [session EXCEPT ![c] =
                   [NoSession EXCEPT !.state = "committed", !.ended = TRUE]]
  /\ finish(c, [call[c].error EXCEPT !.op = call[c].op, !.warned = call[c].warned])
  /\ UNCHANGED <<catalog, price, call>>

abortTransactionLeavesOpen(c, fails) ==
  /\ pc[c] = "abort"
  /\ session' = [session EXCEPT ![c] =
                   IF fails THEN [@ EXCEPT !.state = "active", !.ended = FALSE]
                   ELSE [NoSession EXCEPT !.state = "aborted", !.ended = TRUE]]
  /\ finish(c, [(IF fails THEN Thrown("AbortError") ELSE call[c].error)
                  EXCEPT !.op = call[c].op, !.warned = call[c].warned])
  /\ UNCHANGED <<catalog, price, stock, orders, call>>

\* OrderRepositoryImpl.withTransaction: catch abortTransaction, throw, finally endSession
abortTransaction(c, fails) ==
  /\ pc[c] = "abort"
  /\ session' = [session EXCEPT ![c] =
                   [NoSession EXCEPT !.state = IF fails THEN "abortFailed" ELSE "aborted",
                                     !.ended = TRUE]]
  /\ finish(c, [(IF fails THEN Thrown("AbortError") ELSE call[c].error)
                  EXCEPT !.op = call[c].op, !.warned = call[c].warned])
  /\ UNCHANGED <<catalog, price, stock, orders, call>>

\* the controller has sent the response: the slot is free for the next request
respond(c) ==
  /\ pc[c] = "done"
  /\ pc' = [pc EXCEPT ![c] = "idle"]
  /\ call' = [call EXCEPT ![c] = NoCall]
  /\ session' = [session EXCEPT ![c] = NoSession]
  /\ result' = [result EXCEPT ![c] = NoResult]
  /\ UNCHANGED <<catalog, price, stock, orders>>

\* -------------------------------------------------------- catalog edits
\* ProductRepositoryImpl.update: $set of the fields that are present in data
updateProduct(productId, data) ==
  /\ productId \in catalog
  /\ productId \notin lockedProducts("none")
  /\ price' = IF "price" \in DOMAIN data
                THEN [price EXCEPT ![productId] = data.price] ELSE price
  /\ stock' = IF "stock" \in DOMAIN data
                THEN [stock EXCEPT ![productId] = data.stock] ELSE stock
  /\ UNCHANGED <<catalog, orders, pc, call, session, result>>

\* ProductRepositoryImpl.delete
deleteProduct(productId) ==
  /\ productId \in catalog
  /\ productId \notin lockedProducts("none")
  /\ catalog' = catalog \ {productId}
  /\ UNCHANGED <<price, stock, orders, pc, call, session, result>>

\* ------------------------------------------------------- specifications
initStock == [p \in ProductIds |-> IF p = "p1" THEN MaxStock ELSE 1]
initPrice == [p \in ProductIds |-> IF p = "p1" THEN 1 ELSE MaxPrice]

Init ==
  /\ catalog = ProductIds
  /\ price = initPrice
  /\ stock = initStock
  /\ orders = <<>>
  /\ pc = [c \in Calls |-> "idle"]
  /\ call = [c \in Calls |-> NoCall]
  /\ session = [c \in Calls |-> NoSession]
  /\ result = [c \in Calls |-> NoResult]

Fails == {FALSE, TRUE}
FailAts == 0..3

Request(c, actors, lists, maxOrders) ==
  \/ \E actor \in actors, items \in lists : createOrder(c, actor, items, maxOrders)
  \/ \E actor \in actors, orderId \in OrderIds : payOrder(c, actor, orderId)
  \/ \E actor \in actors, orderId \in OrderIds : cancelOrder(c, actor, orderId)
  \/ \E actor \in actors, orderId \in OrderIds : getOrderById(c, actor, orderId)
  \/ \E actor \in actors, filters \in Filters : getUserOrders(c, actor, filters)

Step(c) ==
  \/ \E failAt \in FailAts : createOrderCallback(c, failAt)
  \/ \E fails \in Fails : payOrderWrite(c, fails)
  \/ \E failAt \in FailAts : cancelOrderCallback(c, failAt)
  \/ \E fails \in Fails : commitTransaction(c, fails)
  \/ \E fails \in Fails : abortTransaction(c, fails)
  \/ respond(c)

AllIdle == \A c \in Calls : pc[c] = "idle"

\* every call runs to completion before the next one starts; no catalog edits
Next ==
  \/ AllIdle /\ Request("c1", Actors, ItemLists, MaxOrders)
  \/ Step("c1")

Spec == Init /\ [][Next]_vars

\* one call of a customer at a time, for existing or deleted products, with
\* the administrator's edits of one product arriving at any moment, also
\* between two steps of a call
ConcActors == { a \in Actors : a.role = "customer" }
EditIds == {"p1"}

UpdateData ==
  [price : Prices] \cup [stock : {0}] \cup [price : Prices, stock : {0}]

CatalogEdit ==
  \/ \E p \in EditIds, data \in UpdateData : updateProduct(p, data)
  \/ \E p \in EditIds : deleteProduct(p)

CatalogLines == [productId : ProductIds, quantity : 1..MaxQty]
CatalogLists == UNION { [1..n -> CatalogLines] : n \in 1..2 }

NextCatalog ==
  \/ AllIdle /\ Request("c1", ConcActors, CatalogLists, MaxCatalogOrders)
  \/ Step("c1")
  \/ CatalogEdit

SpecCatalog == Init /\ [][NextCatalog]_vars

\* concurrent calls of one customer that compete for one item; no catalog edits
ConcLists == { <<[productId |-> "p1", quantity |-> q]>> : q \in 1..MaxQty }

NextConc ==
  \/ \E c \in Calls : Request(c, ConcActors, ConcLists, MaxConcOrders)
  \/ \E c \in Calls : Step(c)

SpecConc == Init /\ [][NextConc]_vars

\* concurrent calls as in SpecConc, where every call that has been started
\* goes on: an await of the source resolves or rejects
NextTxn ==
  \/ \E c \in Calls : Request(c, ConcActors, ConcLists, MaxTxnOrders)
  \/ \E c \in Calls : Step(c)

SpecTxn == Init /\ [][NextTxn]_vars /\ \A c \in Calls : WF_vars(Step(c))

TypeOK ==
  /\ catalog \subseteq ProductIds
  /\ price \in [ProductIds -> Prices]
  /\ stock \in [ProductIds -> Int]
  /\ \A c \in Calls : pc[c] \in {"idle", "withTransaction", "updateStatus",
                                  "commit", "abort", "done"}

\* ---------------------------------------------------------------- claims
\* quantity of product p on the lines of an order
lineQuantity(items, p) ==
  SumSeq([i \in 1..Len(items) |->
            IF items[i].productId = p THEN items[i].quantity ELSE 0])

\* quantity of product p held by the orders that are not cancelled
heldQuantity(p) ==
  SumSeq([o \in 1..Len(orders) |->
            IF orders[o].status \in {"created", "paid"}
              THEN lineQuantity(orders[o].items, p) ELSE 0])

\* quantity times the current catalog price, summed over the lines
currentValue(items) ==
  SumSeq([i \in 1..Len(items) |-> items[i].quantity * price[items[i].productId]])

createReads(c) ==
  pc[c] = "idle" /\ pc'[c] = "withTransaction" /\ call'[c].op = "createOrder"

createCommits(c) ==
  pc[c] = "commit" /\ call[c].op = "createOrder" /\ pc'[c] = "done"

\* C1: when every call completes before the next one starts, the stock of
\* every item is >= 0 in every reachable state.
C1_StockNeverNegative == \A p \in ProductIds : stock[p] >= 0

C1_Witness ==
  /\ \E p \in ProductIds : stock[p] = 0
  /\ \E o \in 1..Len(orders) : orders[o].status = "cancelled"

\* C2: under concurrent createOrder calls the stock of every item stays >= 0
\* and the quantity held by the orders that are not cancelled never exceeds
\* the stock the item started with.
C2_NeverOversold ==
  \A p \in ProductIds : stock[p] >= 0 /\ heldQuantity(p) <= initStock[p]

\* C3: the total of the order a createOrder call persists is the sum of
\* quantity times the unit price the catalog held when the call read it:
\* the call records the catalog price when it reads, keeps it until it
\* commits, and the committed total is the sum over that record.
C3_TotalIsSumOfSnapshots ==
  [][\A c \in Calls :
       /\ createReads(c) =>
            \A i \in 1..Len(call'[c].items) :
               call'[c].orderItems[i].unitPrice = price[call'[c].items[i].productId]
       /\ (call[c].op = "createOrder" /\ pc'[c] \in {"withTransaction", "commit"}) =>
            (call'[c].orderItems = call[c].orderItems /\ call'[c].items = call[c].items)
       /\ createCommits(c) =>
            /\ Len(orders') = Len(orders) + 1
            /\ orders'[Len(orders')].total =
                 SumSeq([i \in 1..Len(call[c].items) |->
                           call[c].items[i].quantity * call[c].orderItems[i].unitPrice])
    ]_vars

C3_Witness ==
  \E c \in Calls :
    /\ pc[c] = "done"
    /\ result[c].message = "Order created successfully"
    /\ Len(orders[result[c].orderId].items) = 2
    /\ orders[result[c].orderId].total # currentValue(orders[result[c].orderId].items)

\* the steps of a createOrder call other than its successful commit
createOtherStep(c) ==
  /\ pc'[c] # pc[c]
  /\ call[c].op = "createOrder" \/ call'[c].op = "createOrder"
  /\ ~createCommits(c)

\* C4: a successful createOrder decreases the stock of every referenced item
\* by exactly the requested quantity, and the order and all of its decrements
\* become visible in one step: the commit adds the order and applies every
\* decrement, and no other step of the call changes orders or stock.
C4_CreateIsAtomic ==
  [][\A c \in Calls :
       /\ createCommits(c) =>
            /\ Len(orders') = Len(orders) + 1
            /\ \A p \in ProductIds :
                 stock'[p] = stock[p] - lineQuantity(call[c].items, p)
       /\ createOtherStep(c) => UNCHANGED <<orders, stock>>
    ]_vars

\* a line of the request asks for more than the stock of its item
someLineShort(items) ==
  \E i \in 1..Len(items) :
    items[i].productId \in catalog /\ items[i].quantity > stock[items[i].productId]

rejected(c) ==
  pc'[c] = "done" /\ ~result'[c].ok /\ result'[c].error = "ValidationError"

\* the step on which call c enters the service method op
enters(c, op) == pc[c] = "idle" /\ pc'[c] # "idle" /\ call'[c].op = op

\* C5: a createOrder request with a line that asks for more than the stock of
\* its item, at any position, fails with a ValidationError and leaves every
\* stock and the orders as they were.
C5_ShortLineRejectsAll ==
  [][\A c \in Calls :
       (enters(c, "createOrder") /\ someLineShort(call'[c].items))
          => (rejected(c) /\ UNCHANGED <<stock, orders>>)
    ]_vars

C5_Witness ==
  \E c \in Calls :
    /\ pc[c] = "done"
    /\ result[c].message = "Insufficient stock"
    /\ result[c].line = 2
    /\ call[c].items[2].quantity > stock[call[c].items[2].productId]
    /\ call[c].items[1].quantity <= stock[call[c].items[1].productId]

unknownIds(items) ==
  { items[i].productId : i \in { j \in 1..Len(items) : items[j].productId \notin catalog } }

namesMissing(c, items) ==
  /\ result'[c].message = "Products not found"
  /\ { result'[c].missing[k] : k \in 1..Len(result'[c].missing) } = unknownIds(items)

\* C6 as stated: a createOrder request with an identity that is not in the
\* catalog fails with a ValidationError naming the missing identities, and
\* persists no order and changes no stock.
C6_UnknownIdNamed ==
  [][\A c \in Calls :
       (enters(c, "createOrder") /\ unknownIds(call'[c].items) # {})
          => /\ rejected(c)
             /\ namesMissing(c, call'[c].items)
             /\ UNCHANGED <<stock, orders>>
    ]_vars

\* C6 amended: a createOrder request whose quantities are all > 0 and that
\* has an identity that is not in the catalog fails with a ValidationError
\* naming the missing identities, persists no order and changes no stock.
C6_UnknownIdNamedWhenQuantitiesValid ==
  [][\A c \in Calls :
       (/\ enters(c, "createOrder")
        /\ unknownIds(call'[c].items) # {}
        /\ \A i \in 1..Len(call'[c].items) : call'[c].items[i].quantity > 0)
          => /\ rejected(c)
             /\ namesMissing(c, call'[c].items)
             /\ UNCHANGED <<stock, orders>>
    ]_vars

C6_Witness ==
  \E c \in Calls :
    /\ pc[c] = "done"
    /\ result[c].message = "Products not found"
    /\ Len(call[c].items) = 2
    /\ Len(result[c].missing) = 1
    /\ Len(orders) > 0

\* C7: createOrder with an empty item list or with a line of quantity <= 0
\* fails with a ValidationError and changes neither stock nor orders.
C7_EmptyOrNonPositiveRejected ==
  [][\A c \in Calls :
       (/\ enters(c, "createOrder")
        /\ \/ Len(call'[c].items) = 0
           \/ \E i \in 1..Len(call'[c].items) : call'[c].items[i].quantity <= 0)
          => (rejected(c) /\ UNCHANGED <<stock, orders>>)
    ]_vars

C7_Witness ==
  \E c \in Calls :
    /\ pc[c] = "done"
    /\ result[c].error = "ValidationError"
    /\ Len(call[c].items) = 2
    /\ call[c].items[1].quantity > 0
    /\ call[c].items[2].quantity <= 0

LegalTransitions ==
  { <<"created", "paid">>, <<"created", "cancelled">>, <<"paid", "cancelled">> }

\* C8: when every call completes before the next one starts, every change of
\* an order's status is created->paid, created->cancelled or paid->cancelled.
C8_OnlyLegalTransitions ==
  [][\A o \in 1..Len(orders) :
       orders'[o].status # orders[o].status
          => <<orders[o].status, orders'[o].status>> \in LegalTransitions
    ]_vars

C8_Witness ==
  \E c \in Calls :
    /\ pc[c] = "done"
    /\ result[c].message = "Order cancelled successfully"
    /\ result[c].warned
    /\ orders[result[c].orderId].status = "cancelled"

\* C9: under concurrent payOrder and cancelOrder calls, an order whose status
\* is cancelled keeps that status in every later state.
C9_CancelledIsTerminal ==
  [][\A o \in 1..Len(orders) :
       orders[o].status = "cancelled" => orders'[o].status = "cancelled"
    ]_vars

\* C10: payOrder by the owner or an admin on an order that is already paid
\* returns a success with status paid and the message 'Order is already
\* paid', and writes nothing to the orders or the stock.
C10_PayIsIdempotent ==
  [][\A c \in Calls :
       (/\ enters(c, "payOrder")
        /\ call'[c].orderId \in 1..Len(orders)
        /\ orders[call'[c].orderId].status = "paid"
        /\ call'[c].isAdmin \/ orders[call'[c].orderId].userId = call'[c].userId)
          => /\ pc'[c] = "done"
             /\ result'[c].ok
             /\ result'[c].status = "paid"
             /\ result'[c].message = "Order is already paid"
             /\ UNCHANGED <<orders, stock, catalog, price, session>>
    ]_vars

C10_Witness ==
  \E c \in Calls :
    /\ pc[c] = "done"
    /\ result[c].ok
    /\ result[c].message = "Order is already paid"
    /\ orders[result[c].orderId].status = "paid"

\* the order that call c names exists, and c enters the service method op
entersOn(c, op) == enters(c, op) /\ call'[c].orderId \in 1..Len(orders)

\* the actor of call c is the owner of the order it names, or an admin
authorized(c) ==
  call'[c].isAdmin \/ orders[call'[c].orderId].userId = call'[c].userId

\* C11: every payOrder call of the owner or an admin on an order whose status
\* is cancelled fails with a ConflictError (409) and leaves the orders and
\* every stock as they were, so the status stays cancelled.
C11_PayCancelledConflicts ==
  [][\A c \in Calls :
       (/\ entersOn(c, "payOrder")
        /\ orders[call'[c].orderId].status = "cancelled"
        /\ authorized(c))
          => /\ pc'[c] = "done"
             /\ ~result'[c].ok
             /\ result'[c].error = "ConflictError"
             /\ result'[c].code = 409
             /\ orders'[call'[c].orderId].status = "cancelled"
             /\ UNCHANGED <<orders, stock>>
    ]_vars

C11_Witness ==
  \E c \in Calls :
    /\ pc[c] = "done"
    /\ call[c].op = "payOrder"
    /\ result[c].error = "ConflictError"
    /\ orders[call[c].orderId].status = "cancelled"

\* the step on which payOrder returns 'Payment successful'
payWrites(c) ==
  pc[c] = "updateStatus" /\ pc'[c] = "done" /\ result'[c].ok

\* C12: payOrder of the owner or an admin on an order in status created goes
\* on to its status write without changing anything, and the write sets the
\* status of that order to paid and changes no other field of it, no other
\* order and no stock.
C12_PayChangesOnlyStatus ==
  [][\A c \in Calls :
       /\ (/\ entersOn(c, "payOrder")
           /\ orders[call'[c].orderId].status = "created"
           /\ authorized(c))
             => (pc'[c] = "updateStatus" /\ UNCHANGED <<orders, stock>>)
       /\ payWrites(c) =>
             /\ orders' = [orders EXCEPT ![call[c].orderId].status = "paid"]
             /\ result'[c].status = "paid"
             /\ UNCHANGED <<stock, catalog, price>>
    ]_vars

C12_Witness ==
  \E c \in Calls :
    /\ pc[c] = "done"
    /\ result[c].message = "Payment successful"
    /\ Len(orders) = 2
    /\ \E o \in 1..Len(orders) : orders[o].status # "paid"

\* C13: cancelOrder of the owner or an admin on an order whose status is
\* cancelled returns a success with status cancelled and the message 'Order
\* is already cancelled', starts no transaction and changes neither the
\* orders nor any stock.
C13_CancelIsIdempotent ==
  [][\A c \in Calls :
       (/\ entersOn(c, "cancelOrder")
        /\ orders[call'[c].orderId].status = "cancelled"
        /\ authorized(c))
          => /\ pc'[c] = "done"
             /\ result'[c].ok
             /\ result'[c].status = "cancelled"
             /\ result'[c].message = "Order is already cancelled"
             /\ call'[c].txns = 0
             /\ UNCHANGED <<orders, stock, catalog, price, session>>
    ]_vars

C13_Witness ==
  \E c \in Calls :
    /\ pc[c] = "done"
    /\ result[c].ok
    /\ result[c].message = "Order is already cancelled"
    /\ orders[result[c].orderId].status = "cancelled"
    /\ \E p \in ProductIds : stock[p] = initStock[p] /\ lineQuantity(orders[result[c].orderId].items, p) > 0

\* the step on which the transaction of a cancelOrder call commits
cancelCommits(c) ==
  pc[c] = "commit" /\ call[c].op = "cancelOrder" /\ pc'[c] = "done"

\* the steps of a cancelOrder call other than its successful commit
cancelOtherStep(c) ==
  /\ pc'[c] # pc[c]
  /\ call[c].op = "cancelOrder" \/ call'[c].op = "cancelOrder"
  /\ ~cancelCommits(c)

\* C14: cancelOrder of the owner or an admin on an order in status created
\* or paid goes on to its transaction; the commit sets the status of that
\* order to cancelled and adds to the stock of every product the quantity
\* of the order's lines for it, in one step, and no other step of the call
\* changes the orders or the stock.
C14_CancelRestoresAtomically ==
  [][\A c \in Calls :
       /\ (/\ entersOn(c, "cancelOrder")
           /\ orders[call'[c].orderId].status \in {"created", "paid"}
           /\ authorized(c))
             => (pc'[c] = "withTransaction" /\ UNCHANGED <<orders, stock>>)
       /\ cancelCommits(c) =>
             /\ orders' = [orders EXCEPT ![call[c].orderId].status = "cancelled"]
             /\ \A p \in ProductIds :
                  stock'[p] = stock[p] + lineQuantity(orders[call[c].orderId].items, p)
       /\ cancelOtherStep(c) => UNCHANGED <<orders, stock>>
    ]_vars

\* C15: with one order ever created, the stock of every item is its initial
\* value before the order exists, the initial value less the order's
\* quantity while the order is created or paid, and the initial value again
\* once the order is cancelled.
C15_RoundTrip ==
  \A p \in ProductIds :
    /\ Len(orders) = 0 => stock[p] = initStock[p]
    /\ Len(orders) = 1 =>
          stock[p] = IF orders[1].status = "cancelled"
                       THEN initStock[p]
                       ELSE initStock[p] - lineQuantity(orders[1].items, p)

C15_Witness ==
  /\ Len(orders) = 1
  /\ orders[1].status = "cancelled"
  /\ Len(orders[1].items) = 2
  /\ stock = initStock
  /\ \E c \in Calls : pc[c] = "done" /\ call[c].op = "cancelOrder"
                        /\ call[c].readStatus = "paid" /\ result[c].ok

\* C16: payOrder and cancelOrder on an existing order end with the 403
\* 'Access denied' error, changing neither orders nor stock, exactly when
\* the actor is neither the owner of the order nor an admin.
C16_AccessIffOwnerOrAdmin ==
  [][\A c \in Calls :
       (entersOn(c, "payOrder") \/ entersOn(c, "cancelOrder"))
          => /\ ~authorized(c) =>
                  /\ pc'[c] = "done"
                  /\ ~result'[c].ok
                  /\ result'[c].code = 403
                  /\ result'[c].message = "Access denied"
                  /\ UNCHANGED <<orders, stock>>
             /\ authorized(c) => result'[c].code # 403
    ]_vars

C16_Witness ==
  \E c \in Calls :
    /\ pc[c] = "done"
    /\ call[c].op = "cancelOrder"
    /\ result[c].code = 403
    /\ orders[call[c].orderId].userId # call[c].userId

\* C17: payOrder and cancelOrder with an order identity that no order has
\* end with the 404 'Order not found' error for every actor, an admin
\* included, and change neither orders nor stock.
C17_UnknownOrderNotFound ==
  [][\A c \in Calls :
       (/\ enters(c, "payOrder") \/ enters(c, "cancelOrder")
        /\ call'[c].orderId \notin 1..Len(orders))
          => /\ pc'[c] = "done"
             /\ ~result'[c].ok
             /\ result'[c].code = 404
             /\ result'[c].message = "Order not found"
             /\ UNCHANGED <<orders, stock>>
    ]_vars

C17_Witness ==
  \E c \in Calls :
    /\ pc[c] = "done"
    /\ call[c].op = "cancelOrder"
    /\ call[c].isAdmin
    /\ result[c].message = "Order not found"
    /\ Len(orders) > 0

\* C18: the commit of withTransaction applies every write of the callback,
\* and when the callback or the commit has failed, withTransaction leaves
\* the orders and the stock as they were and throws to its caller the
\* failure that was raised, also when abortTransaction itself fails.
C18_RollbackRethrowsSameError ==
  [][\A c \in Calls :
       /\ (pc[c] = "commit" /\ pc'[c] = "done") =>
             /\ Len(orders') = Len(orders) + Len(session[c].inserts)
             /\ \A p \in ProductIds : stock'[p] = stock[p] + session[c].incs[p]
       /\ (pc[c] = "abort" /\ pc'[c] = "done") =>
             /\ result'[c].error = call[c].error.error
             /\ result'[c].code = call[c].error.code
             /\ UNCHANGED <<orders, stock>>
    ]_vars

\* the lines whose stock the callback of call c updates
stockLines(c) ==
  IF call[c].op = "createOrder" THEN call[c].items ELSE call[c].orderItems

\* C19: when the product of a line does not exist as the callback of
\* createOrder or cancelOrder runs, the callback fails (with the
\* NotFoundError of the stock update, or with the failure of an earlier
\* write), so the transaction is rolled back and never committed without
\* that stock change.
C19_MissingItemRollsBack ==
  [][\A c \in Calls :
       (/\ pc[c] = "withTransaction"
        /\ pc'[c] # pc[c]
        /\ \E i \in 1..Len(stockLines(c)) : stockLines(c)[i].productId \notin catalog)
          => /\ pc'[c] = "abort"
             /\ call'[c].error.error \in {"NotFoundError", "StorageError"}
    ]_vars

\* C20: the owner, the line items and the total of an order never change
\* once the order exists, and no order is removed: not by payOrder, not by
\* cancelOrder and not by a change of a product's price or stock.
C20_OrderContentImmutable ==
  [][/\ Len(orders') >= Len(orders)
     /\ \A o \in 1..Len(orders) :
          /\ orders'[o].userId = orders[o].userId
          /\ orders'[o].items = orders[o].items
          /\ orders'[o].total = orders[o].total
    ]_vars

C20_Witness ==
  \E o \in 1..Len(orders) :
    /\ orders[o].status = "cancelled"
    /\ \E i \in 1..Len(orders[o].items) :
         orders[o].items[i].unitPrice # price[orders[o].items[i].productId]
    /\ \E c \in Calls : pc[c] = "done" /\ call[c].op = "cancelOrder"
                          /\ call[c].readStatus = "paid" /\ result[c].ok

\* C21: every order in the order store has at least one line, every line
\* has a quantity >= 1 and a unit price >= 0, and the total is >= 0.
C21_OrdersAreWellFormed ==
  \A o \in 1..Len(orders) :
    /\ Len(orders[o].items) >= 1
    /\ \A i \in 1..Len(orders[o].items) :
         orders[o].items[i].quantity >= 1 /\ orders[o].items[i].unitPrice >= 0
    /\ orders[o].total >= 0

C21_Witness ==
  /\ Len(orders) = 2
  /\ \E o \in 1..Len(orders) : orders[o].status = "paid" /\ Len(orders[o].items) = 2
  /\ \E c \in Calls : pc[c] = "done" /\ call[c].op = "createOrder"
                        /\ result[c].message = "Quantity must be greater than 0"

\* C22: under concurrent payOrder calls on an order, a call writes the
\* status and returns 'Payment successful' only when the stored status is
\* still created, so that at most one call does so for an order.
C22_AtMostOnePaymentSucceeds ==
  [][\A c \in Calls :
       payWrites(c) => orders[call[c].orderId].status = "created"
    ]_vars

\* C23: getOrderById returns null for an identity that no order has, the
\* order for its owner or an admin, and fails with the 403 'Access denied'
\* error for any other caller; it never changes the stores.
C23_GetOrderById ==
  [][\A c \in Calls :
       enters(c, "getOrderById")
          => /\ pc'[c] = "done"
             /\ UNCHANGED <<orders, stock, catalog, price, session>>
             /\ IF call'[c].orderId \notin 1..Len(orders)
                  THEN result'[c].ok /\ result'[c].orderId = 0
                       /\ result'[c].message = "null"
                ELSE IF authorized(c)
                  THEN /\ result'[c].ok
                       /\ result'[c].orderId = call'[c].orderId
                       /\ result'[c].status = orders[call'[c].orderId].status
                  ELSE /\ ~result'[c].ok
                       /\ result'[c].code = 403
                       /\ result'[c].message = "Access denied"
    ]_vars

C23_Witness ==
  \E c \in Calls :
    /\ pc[c] = "done"
    /\ call[c].op = "getOrderById"
    /\ result[c].message = "Access denied"
    /\ orders[call[c].orderId].userId # call[c].userId

\* the identities on a returned page
returned(c) == { result'[c].orders[k] : k \in 1..Len(result'[c].orders) }

\* the query asks for every status and its first page holds every order
unfiltered(c) ==
  /\ call'[c].filters.status = "none"
  /\ call'[c].filters.page = 1
  /\ call'[c].filters.limit >= Len(orders)

\* C24: getUserOrders returns to a caller who is not an admin only orders
\* that the caller owns, and all of them when nothing is filtered out, so
\* the result does not depend on the orders of other users; it returns to
\* an admin the orders of all users.
C24_GetUserOrdersByOwner ==
  [][\A c \in Calls :
       enters(c, "getUserOrders")
          => /\ pc'[c] = "done"
             /\ result'[c].ok
             /\ ~call'[c].isAdmin =>
                  /\ \A o \in returned(c) :
                       o \in 1..Len(orders) /\ orders[o].userId = call'[c].userId
                  /\ unfiltered(c) =>
                       returned(c) = { o \in 1..Len(orders) :
                                         orders[o].userId = call'[c].userId }
             /\ (call'[c].isAdmin /\ unfiltered(c)) => returned(c) = 1..Len(orders)
    ]_vars

C24_Witness ==
  \E c \in Calls :
    /\ pc[c] = "done"
    /\ call[c].op = "getUserOrders"
    /\ ~call[c].isAdmin
    /\ Len(result[c].orders) = 1
    /\ Len(orders) = 2
    /\ \E o \in 1..Len(orders) : orders[o].userId # call[c].userId

\* C25: for an actor who is neither the owner nor an admin, payOrder and
\* cancelOrder on an existing order end with the same 403 error whatever
\* the status of the order is: never with the 'already paid' or 'already
\* cancelled' success and never with the ConflictError.
C25_AccessCheckedBeforeStatus ==
  [][\A c \in Calls, st \in Statuses :
       (/\ entersOn(c, "payOrder") \/ entersOn(c, "cancelOrder")
        /\ orders[call'[c].orderId].status = st
        /\ ~authorized(c))
          => /\ result'[c] = [ApiError("Access denied", 403) EXCEPT !.op = call'[c].op]
             /\ result'[c].error # "ConflictError"
             /\ result'[c].message \notin {"Order is already paid",
                                            "Order is already cancelled"}
    ]_vars

C25_Witness ==
  \E c \in Calls :
    /\ pc[c] = "done"
    /\ call[c].op = "payOrder"
    /\ result[c].code = 403
    /\ orders[call[c].orderId].status = "cancelled"

\* a write of the callback of call c has failed
callbackFailed(c) ==
  call[c].error.error \in {"StorageError", "ValidatorError", "TypeError"}

\* C26: when a write fails inside the transaction of createOrder or of
\* cancelOrder, no step of the call changes the orders or the stock: not
\* the entry of the call, not the callback up to the failing write, and not
\* the abort, which drops every write of the session and ends the call with
\* a failure.
C26_FailedWriteLeavesNoTrace ==
  [][\A c \in Calls :
       /\ (enters(c, "createOrder") \/ enters(c, "cancelOrder"))
             => UNCHANGED <<orders, stock>>
       /\ (pc[c] = "withTransaction" /\ pc'[c] = "abort")
             => UNCHANGED <<orders, stock>>
       /\ (pc[c] = "abort" /\ pc'[c] = "done" /\ callbackFailed(c))
             => /\ UNCHANGED <<orders, stock>>
                /\ ~result'[c].ok
                /\ session'[c].inserts = <<>>
                /\ session'[c].statusSets = <<>>
                /\ \A p \in ProductIds : session'[c].incs[p] = 0
    ]_vars

C26_Witness ==
  \E c \in Calls :
    /\ pc[c] = "done"
    /\ call[c].op = "cancelOrder"
    /\ Len(call[c].orderItems) = 2
    /\ result[c].error = "StorageError"
    /\ session[c].state = "aborted"
    /\ orders[call[c].orderId].status = "paid"

C28_OneTransactionPerCall ==
  [][\A c \in Calls :
       /\ call'[c].txns <= 1
       /\ (\E p \in ProductIds : session'[c].incs[p] # 0)
             => Len(session'[c].inserts) + Len(session'[c].statusSets) = 1
       /\ stock' # stock
             => \E d \in Calls : pc[d] = "commit" /\ pc'[d] = "done" /\ orders' # orders
    ]_vars

C28_Witness ==
  \E c \in Calls :
    /\ pc[c] = "commit"
    /\ call[c].op = "cancelOrder"
    /\ call[c].txns = 1
    /\ Len(session[c].statusSets) = 1
    /\ \A p \in ProductIds : session[c].incs[p] > 0

\* C29: the order that a successful createOrder call persists has the
\* status created, the caller as owner, and one line per requested line
\* with the requested product and quantity, in the requested order.
C29_PersistedOrderIsTheRequest ==
  [][\A c \in Calls :
       createCommits(c) =>
         LET order == orders'[Len(orders')] IN
           /\ Len(orders') = Len(orders) + 1
           /\ order.status = "created"
           /\ order.userId = call[c].userId
           /\ Len(order.items) = Len(call[c].items)
           /\ \A i \in 1..Len(call[c].items) :
                /\ order.items[i].productId = call[c].items[i].productId
                /\ order.items[i].quantity = call[c].items[i].quantity
    ]_vars

C29_Witness ==
  \E c \in Calls :
    /\ pc[c] = "done"
    /\ result[c].message = "Order created successfully"
    /\ call[c].isAdmin
    /\ Len(orders) = 2
    /\ orders[Len(orders)].userId = "admin"
    /\ \E i \in 1..Len(orders[Len(orders)].items) : orders[Len(orders)].items[i].quantity = 2

\* C30: the status of every order is created, paid or cancelled; an order
\* appears only on the commit of createOrder and with the status created, a
\* status becomes paid only on the write of payOrder, and cancelled only on
\* the commit of cancelOrder.
C30_StatusWrittenByItsOperation ==
  [][/\ \A o \in 1..Len(orders') : orders'[o].status \in Statuses
     /\ \A o \in (Len(orders) + 1)..Len(orders') :
          /\ orders'[o].status = "created"
          /\ \E c \in Calls : createCommits(c)
     /\ \A o \in 1..Len(orders) :
          orders'[o].status # orders[o].status =>
            \/ /\ orders'[o].status = "paid"
               /\ \E c \in Calls : payWrites(c) /\ call[c].op = "payOrder"
                                      /\ call[c].orderId = o
            \/ /\ orders'[o].status = "cancelled"
               /\ \E c \in Calls : cancelCommits(c) /\ call[c].orderId = o
    ]_vars

C30_Witness ==
  /\ Len(orders) = 2
  /\ orders[1].status = "cancelled"
  /\ orders[2].status = "paid"
  /\ \E c \in Calls : pc[c] = "done" /\ result[c].message = "Payment successful"

\* C31: a cancelOrder call emits the warning exactly when its order exists,
\* its actor is the owner or an admin and the status it read is paid; the
\* call emits nothing later, its result reports what it emitted, and no
\* other operation emits the warning.
C31_WarnsExactlyOnPaid ==
  [][\A c \in Calls :
       /\ enters(c, "cancelOrder") =>
            (call'[c].warned <=>
               /\ call'[c].orderId \in 1..Len(orders)
               /\ authorized(c)
               /\ orders[call'[c].orderId].status = "paid")
       /\ (pc[c] # "idle" /\ pc'[c] # "idle") => call'[c].warned = call[c].warned
       /\ (pc'[c] = "done" /\ pc[c] \in {"commit", "abort"})
            => result'[c].warned = call[c].warned
       /\ call'[c].op # "cancelOrder" => ~call'[c].warned
    ]_vars

C31_Witness ==
  \E c \in Calls :
    /\ pc[c] = "done"
    /\ call[c].op = "cancelOrder"
    /\ call[c].warned
    /\ call[c].isAdmin
    /\ orders[call[c].orderId].userId # call[c].userId
    /\ orders[call[c].orderId].status = "cancelled"

\* C32: with calls one at a time and no catalog edits, the stock of every
\* item plus the quantity of it on the orders in status created or paid is
\* the initial stock of the item.
C32_Conservation ==
  \A p \in ProductIds : stock[p] + heldQuantity(p) = initStock[p]

C32_Witness ==
  /\ Len(orders) = 2
  /\ \E o \in 1..Len(orders) : orders[o].status = "cancelled"
  /\ \E o \in 1..Len(orders) : orders[o].status = "paid" /\ Len(orders[o].items) = 2
  /\ \A p \in ProductIds : stock[p] < initStock[p]

\* C33: under concurrent cancelOrder calls on an order, the commit of a
\* call adds the order's quantities to the stock only when the stored
\* status is not yet cancelled, so the quantities are added back once.
C33_RestoredAtMostOnce ==
  [][\A c \in Calls :
       (cancelCommits(c) /\ stock' # stock)
          => orders[call[c].orderId].status # "cancelled"
    ]_vars

\* C34: a createOrder call ends with the 'Products not found' error only
\* when an identity of its request is not in the catalog.
C34_NotFoundOnlyWhenMissing ==
  [][\A c \in Calls :
       (enters(c, "createOrder") /\ result'[c].message = "Products not found")
          => unknownIds(call'[c].items) # {}
    ]_vars

====
